---- MODULE Spec2Model ----
(***************************************************************************)
(* A model of the webhook ingestion service: the signature gate            *)
(* (app/main.py verify_signature), the idempotent message store            *)
(* (app/storage.py Storage over SQLite), the metrics registry              *)
(* (app/metrics.py Metrics) and the request pipeline that ties them        *)
(* together (app/main.py routes under app/logging_utils.py                 *)
(* RequestLogMiddleware).                                                  *)
(*                                                                         *)
(* Strings are sequences of one-character strings (names, labels and       *)
(* error messages, which the code only passes on, are TLA+ strings); byte  *)
(* strings are sequences of small naturals.  A header that is absent (headers.get      *)
(* returns None) and a header that is present but empty are both falsy in  *)
(* the code and are both written <<>>.                                     *)
(***************************************************************************)
EXTENDS Integers, Sequences, FiniteSets, TLC

\* ------------------------------------------------------------------ bounds
\* Longest raw request body, in bytes.
MaxBodyLen == 2
\* Width of the modelled hex digest, in characters.
DigestLen == 4
\* Number of HTTP requests of one run of the pipeline.
NReq == 2
\* Number of observations of one run of the registry on its own.
MaxObs == 3
\* Number of threads that call the registry concurrently, one call each.
NThreads == 3
\* Number of rows of the table query_messages runs on.
MaxRows == 3
\* Number of distinct senders of the table compute_stats runs on.
MaxSenders == 11

\* ----------------------------------------------------------------- strings
ByteVals == {0, 1}

RECURSIVE SeqsUpTo(_, _)
SeqsUpTo(S, n) ==
    IF n = 0 THEN {<<>>}
    ELSE LET shorter == SeqsUpTo(S, n - 1)
         IN  shorter \cup {Append(s, x) : s \in {t \in shorter : Len(t) = n - 1}, x \in S}

Bodies == SeqsUpTo(ByteVals, MaxBodyLen)

HexChars == <<"0","1","2","3","4","5","6","7","8","9","a","b","c","d","e","f">>

\* A character outside ASCII, as the latin-1 decoding of a header byte >= 0x80.
NonAscii == "\\xe9"

IsAscii(s) == \A i \in 1..Len(s) : s[i] # NonAscii

StartsWith(s, p) == Len(s) >= Len(p) /\ SubSeq(s, 1, Len(p)) = p

\* Positions of the separator in s, in increasing order.
SepPositions(s, sep) == {i \in 1..Len(s) : s[i] = sep}

MinOf(S) == CHOOSE x \in S : \A y \in S : x <= y

\* str.split(sep)[1] for a string that holds sep at least once: the piece
\* between the first separator and the second one (or the end of the string).
SplitSecond(s, sep) ==
    LET first == MinOf(SepPositions(s, sep))
        later == {i \in SepPositions(s, sep) : i > first}
        stop  == IF later = {} THEN Len(s) + 1 ELSE MinOf(later)
    IN  SubSeq(s, first + 1, stop - 1)

\* ---------------------------------------------------------------- HMAC
\* hmac.new(key, msg, sha256).hexdigest() is library code.  It is modelled as
\* an ideal keyed hash: a fixed-width lowercase hex string that is a function
\* of (key, msg) and differs for different (key, msg) within the bounds.
RECURSIVE EncodeBytes(_)
EncodeBytes(s) ==
    IF s = <<>> THEN 0
    ELSE (Cardinality(ByteVals) + 1) * EncodeBytes(SubSeq(s, 1, Len(s) - 1)) + s[Len(s)] + 1

RECURSIVE Pow(_, _)
Pow(b, n) == IF n = 0 THEN 1 ELSE b * Pow(b, n - 1)

RECURSIVE ToHex(_, _)
ToHex(n, w) == IF w = 0 THEN <<>> ELSE Append(ToHex(n \div 16, w - 1), HexChars[(n % 16) + 1])

HexDigest(key, msg) ==
    ToHex((EncodeBytes(key) * Pow(Cardinality(ByteVals) + 1, MaxBodyLen + 1) + EncodeBytes(msg)) * 7 + 3,
          DigestLen)

\* hmac.compare_digest on two str: equality, and TypeError when either holds a
\* non-ASCII character.
\* A comparison that looks at the lengths alone.
CompareLengthOnly(a, b) ==
    IF IsAscii(a) /\ IsAscii(b) THEN (IF Len(a) = Len(b) THEN "equal" ELSE "differ") ELSE "TypeError"

CompareDigest(a, b) ==
    IF IsAscii(a) /\ IsAscii(b) THEN (IF a = b THEN "equal" ELSE "differ") ELSE "TypeError"

\* ------------------------------------------------------- verify_signature
Sha256Prefix == <<"s","h","a","2","5","6","=">>

\* request.headers.get("X-Signature") or request.headers.get("X-Hub-Signature-256")
PickSignature(xsig, xhub) == IF xsig # <<>> THEN xsig ELSE xhub

SigHash(signature) ==
    IF StartsWith(signature, Sha256Prefix) THEN SplitSecond(signature, "=") ELSE signature

\* What a call ends with: it returns, or it raises an exception.  An
\* HTTPException carries the status and detail of the response FastAPI makes
\* of it; any other exception carries none.
Returns == [kind |-> "return", status_code |-> 0, detail |-> ""]
HTTPException(status_code, detail) ==
    [kind |-> "HTTPException", status_code |-> status_code, detail |-> detail]
Raises(type) == [kind |-> type, status_code |-> 0, detail |-> ""]

\* verify_signature, given settings.WEBHOOK_SECRET, the two signature headers
\* and the raw body.
VerifySignature(secret, xsig, xhub, body) ==
    LET signature == PickSignature(xsig, xhub)
    IN  IF secret = <<>> THEN HTTPException(503, "Server configuration error")
        ELSE IF signature = <<>> THEN HTTPException(401, "invalid signature")
        ELSE LET cmp == CompareDigest(SigHash(signature), HexDigest(secret, body))
             IN  IF cmp = "TypeError" THEN Raises("TypeError")
                 ELSE IF cmp = "equal" THEN Returns
                 ELSE HTTPException(401, "invalid signature")

\* ------------------------------------------------------------ optionals
\* Optional[T]: None is <<>>, a value x is <<x>>.
None == <<>>
Some(x) == <<x>>

\* ---------------------------------------------------------------- Metrics
LatencyBuckets == <<10, 50, 100, 200, 500, 1000, 5000>>

\* Metrics.__init__: all four dicts empty.
EmptyMetrics ==
    [counters |-> <<>>, histograms |-> <<>>, histogram_sums |-> <<>>, histogram_counts |-> <<>>]

\* dict assignment d[k] = v and dict.get(k, default)
DictPut(d, k, v) == [x \in (DOMAIN d) \cup {k} |-> IF x = k THEN v ELSE d[x]]
DictGet(d, k, default) == IF k \in DOMAIN d THEN d[k] ELSE default

\* The order a dict iterates its keys in is their order of insertion: after
\* d[k] = v a new key is at the end and a key the dict holds keeps its place.
OrderPut(order, k) ==
    IF \E i \in 1..Len(order) : order[i] = k THEN order ELSE Append(order, k)

\* _get_label_key: frozenset(labels.items())
HttpLabelKey(path, status) == {<<"path", path>>, <<"status", status>>}
WebhookLabelKey(result) == {<<"result", result>>}

HttpCounterKey(path, status) == <<"http_requests_total", HttpLabelKey(path, status)>>
HistKey(path, status) == <<"request_latency_ms", HttpLabelKey(path, status)>>
WebhookCounterKey(result) == <<"webhook_requests_total", WebhookLabelKey(result)>>

\* A loop that stops at the first bucket the latency fits (counts that are
\* not cumulative).
FirstBucketOnly(buckets, latency_ms) ==
    [i \in 1..(Len(LatencyBuckets) + 1) |->
        IF i = Len(LatencyBuckets) + 1 THEN buckets[i] + 1
        ELSE IF latency_ms <= LatencyBuckets[i]
                /\ \A j \in 1..(i - 1) : latency_ms > LatencyBuckets[j]
             THEN buckets[i] + 1
        ELSE buckets[i]]

\* The loop over latency_buckets and the +Inf bucket (the last one).
UpdateBuckets(buckets, latency_ms) ==
    [i \in 1..(Len(LatencyBuckets) + 1) |->
        IF i = Len(LatencyBuckets) + 1 THEN buckets[i] + 1
        ELSE IF latency_ms <= LatencyBuckets[i] THEN buckets[i] + 1
        ELSE buckets[i]]

\* Metrics.record_http_request, the body of its critical section.
RecordHttpRequest(m, path, status, latency_ms) ==
    LET key      == HttpCounterKey(path, status)
        hist_key == HistKey(path, status)
        fresh    == hist_key \notin DOMAIN m.histograms
        buckets  == IF fresh THEN [i \in 1..(Len(LatencyBuckets) + 1) |-> 0]
                    ELSE m.histograms[hist_key]
        sum      == IF fresh THEN 0 ELSE m.histogram_sums[hist_key]
        count    == IF fresh THEN 0 ELSE m.histogram_counts[hist_key]
    IN  [counters         |-> DictPut(m.counters, key, DictGet(m.counters, key, 0) + 1),
         histograms       |-> DictPut(m.histograms, hist_key, UpdateBuckets(buckets, latency_ms)),
         histogram_sums   |-> DictPut(m.histogram_sums, hist_key, sum + latency_ms),
         histogram_counts |-> DictPut(m.histogram_counts, hist_key, count + 1)]

\* Metrics.record_webhook_result, the body of its critical section.
RecordWebhookResult(m, result) ==
    LET key == WebhookCounterKey(result)
    IN  [m EXCEPT !.counters = DictPut(m.counters, key, DictGet(m.counters, key, 0) + 1)]

\* ------------------------------------------------------------- datetimes
\* A datetime is [sec, usec, tz]: a time of day in seconds, a microsecond part
\* and a UTC offset ("utc", "+1" for +01:00, "naive" for no tzinfo).
Digit(n) == HexChars[n + 1]

\* datetime.isoformat(): seconds, ".ffffff" only when microsecond # 0, then the
\* offset (nothing for a naive datetime).  One digit stands for each numeric
\* field and "+0" / "+1" for "+00:00" / "+01:00".
IsoFormat(dt) ==
    <<Digit(dt.sec)>>
    \o (IF dt.usec = 0 THEN <<>> ELSE <<".", Digit(dt.usec)>>)
    \o (IF dt.tz = "utc" THEN <<"+", "0">> ELSE IF dt.tz = "+1" THEN <<"+", "1">> ELSE <<>>)

\* The characters of the model in ASCII order, for the byte-wise comparison
\* SQLite makes on TEXT values.
AsciiOrder == <<"%", "+", ".", "0", "1", "2", "3", "4", "5", "6", "7", "8", "9",
                "H", "I", "_", "h", "i", "m">>

CharCode(c) == CHOOSE i \in 1..Len(AsciiOrder) : AsciiOrder[i] = c

RECURSIVE TextLeq(_, _)
TextLeq(a, b) ==
    IF a = <<>> THEN TRUE
    ELSE IF b = <<>> THEN FALSE
    ELSE IF Head(a) = Head(b) THEN TextLeq(Tail(a), Tail(b))
    ELSE CharCode(Head(a)) < CharCode(Head(b))

\* ------------------------------------------------------ WebhookMessageIn
Utc(sec) == [sec |-> sec, usec |-> 0, tz |-> "utc"]

\* Request body parsing and validation, which FastAPI does before the route
\* function runs: the parsed payload of a well-formed body, None for a body
\* that fails validation (422).
ParseBody(body) ==
    IF body = <<0, 0>> THEN
        Some([message_id |-> <<"m", "1">>, sender |-> <<"+", "1">>, receiver |-> <<"+", "9">>, ts |-> Utc(1),
              text |-> Some(<<"H", "i">>)])
    ELSE IF body = <<0, 1>> THEN
        Some([message_id |-> <<"m", "1">>, sender |-> <<"+", "2">>, receiver |-> <<"+", "8">>, ts |-> Utc(2),
              text |-> None])
    ELSE IF body = <<1, 0>> THEN
        Some([message_id |-> <<"m", "2">>, sender |-> <<"+", "1">>, receiver |-> <<"+", "9">>, ts |-> Utc(2),
              text |-> Some(<<"h", "i">>)])
    ELSE None

\* ---------------------------------------------------------------- Storage
\* The messages table is the sequence of its committed rows, in rowid order.
\* The row insert_message binds to its INSERT statement.
MakeRow(payload, now) ==
    [message_id  |-> payload.message_id,
     from_msisdn |-> payload.sender,
     to_msisdn   |-> payload.receiver,
     ts          |-> IsoFormat(payload.ts),
     text        |-> payload.text,
     created_at  |-> now]

RowsWithId(table, message_id) == {i \in 1..Len(table) : table[i].message_id = message_id}

\* A table declared without the PRIMARY KEY.
NoUniqueCheck(table, message_id) == FALSE

\* The PRIMARY KEY check SQLite makes when the INSERT executes.

UniqueViolation(table, message_id) == RowsWithId(table, message_id) # {}

\* INSERT OR REPLACE in the place of INSERT.
InsertOrReplace(table, row) ==
    [ok |-> TRUE,
     table |-> Append(SelectSeq(table, LAMBDA x : x.message_id # row.message_id), row)]

\* The INSERT statement on a table: whether it succeeds, and the table once
\* it is committed.
InsertStatement(table, row) ==
    IF UniqueViolation(table, row.message_id) THEN [ok |-> FALSE, table |-> table]
    ELSE [ok |-> TRUE, table |-> Append(table, row)]

\* An except clause that takes every error for a duplicate.
SwallowAllErrors(err) == "False"

\* The except clause of insert_message: what the call does with an error
\* raised inside the connection block.

OnInsertError(err) ==
    IF err = "IntegrityError: UNIQUE constraint failed" THEN "False" ELSE "raise"

\* SQLite's LIKE: % matches any run of characters, _ any one character, and
\* ASCII letters match regardless of case.
Lower(c) == IF c = "H" THEN "h" ELSE IF c = "I" THEN "i" ELSE c

RECURSIVE LikeMatch(_, _)
LikeMatch(pattern, str) ==
    IF pattern = <<>> THEN str = <<>>
    ELSE IF Head(pattern) = "%"
         THEN LikeMatch(Tail(pattern), str) \/ (str # <<>> /\ LikeMatch(pattern, Tail(str)))
    ELSE IF str = <<>> THEN FALSE
    ELSE IF Head(pattern) = "_" THEN LikeMatch(Tail(pattern), Tail(str))
    ELSE Lower(Head(pattern)) = Lower(Head(str)) /\ LikeMatch(Tail(pattern), Tail(str))

\* Python truthiness of an Optional[str]: None and "" are falsy.
Truthy(opt) == opt # None /\ opt[1] # <<>>

\* The WHERE clause query_messages builds: a filter is [from_filter, since, q],
\* each an Optional.
RowMatches(row, f) ==
    /\ Truthy(f.from_filter) => row.from_msisdn = f.from_filter[1]
    /\ f.since # None => TextLeq(IsoFormat(f.since[1]), row.ts)
    /\ Truthy(f.q) => (row.text # None /\ LikeMatch(<<"%">> \o f.q[1] \o <<"%">>, row.text[1]))

MatchingRows(table, f) == {i \in 1..Len(table) : RowMatches(table[i], f)}

\* ORDER BY ts ASC alone: rows with one ts are left in rowid order.
TsOnlyBefore(a, b) == TextLeq(a.ts, b.ts)

\* ORDER BY ts ASC, message_id ASC
RowBefore(a, b) ==
    IF a.ts = b.ts THEN TextLeq(a.message_id, b.message_id) ELSE TextLeq(a.ts, b.ts)

RECURSIVE SortRows(_, _)
SortRows(table, idx) ==
    IF idx = {} THEN <<>>
    ELSE LET first == CHOOSE i \in idx :
                          \A j \in idx : RowBefore(table[i], table[j]) /\ (RowBefore(table[j], table[i]) => i <= j)
         IN  <<table[first]>> \o SortRows(table, idx \ {first})

\* LIMIT ? OFFSET ?: a negative OFFSET counts as 0 in SQLite.
LimitOffset(seq, limit, offset) ==
    LET skip == IF offset < 0 THEN 0 ELSE offset
        last == IF skip + limit < Len(seq) THEN skip + limit ELSE Len(seq)
    IN  SubSeq(seq, skip + 1, last)

\* The dict query_messages builds for each fetched row.
RowToItem(row) ==
    [message_id |-> row.message_id, from |-> row.from_msisdn, to |-> row.to_msisdn,
     ts |-> row.ts, text |-> row.text]

\* SELECT COUNT(*) with the filter
QueryTotal(table, f) == Cardinality(MatchingRows(table, f))

\* SELECT * with the filter, ORDER BY, LIMIT and OFFSET, as the data list
QueryData(table, f, limit, offset) ==
    LET page == LimitOffset(SortRows(table, MatchingRows(table, f)), limit, offset)
    IN  [i \in 1..Len(page) |-> RowToItem(page[i])]

\* ---- compute_stats, one operator for each of its four SELECT statements
TopLimit == 10

StatTotal(table) == Len(table)

SendersOf(table) == {table[i].from_msisdn : i \in 1..Len(table)}

\* COUNT(from_msisdn), without DISTINCT
StatSendersAll(table) == Len(table)

StatSenders(table) == Cardinality(SendersOf(table))

\* MIN(ts), MAX(ts): NULL on an empty table
StatFirst(table) ==
    IF table = <<>> THEN None
    ELSE Some(CHOOSE t \in {table[i].ts : i \in 1..Len(table)} :
                  \A j \in 1..Len(table) : TextLeq(t, table[j].ts))

StatLast(table) ==
    IF table = <<>> THEN None
    ELSE Some(CHOOSE t \in {table[i].ts : i \in 1..Len(table)} :
                  \A j \in 1..Len(table) : TextLeq(table[j].ts, t))

SenderCount(table, sender) == Cardinality({i \in 1..Len(table) : table[i].from_msisdn = sender})

\* GROUP BY from_msisdn ORDER BY cnt DESC LIMIT 10: SQL leaves the order among
\* equal counts open, so the statement may return any of these dicts.
StatTopSenders(table) ==
    LET all  == SendersOf(table)
        size == IF Cardinality(all) < TopLimit THEN Cardinality(all) ELSE TopLimit
    IN  {[s \in S |-> SenderCount(table, s)] :
            S \in {T \in SUBSET all :
                     /\ Cardinality(T) = size
                     /\ \A a \in T, b \in all \ T : SenderCount(table, a) >= SenderCount(table, b)}}

\* ------------------------------------------------------------------ state
VARIABLES
    secret,     \* settings.WEBHOOK_SECRET
    rows,       \* the committed rows of the messages table, in rowid order
    writer,     \* the request whose connection holds SQLite's write lock, or 0
    clock,      \* datetime.now(), as a tick
    req,        \* the HTTP requests: position, input, locals and response of each
    metrics,    \* the Metrics singleton
    sig,        \* one call of verify_signature on its own: its arguments and outcome
    lock,       \* Metrics._lock: the set of threads inside a "with self._lock" block
    thr,        \* the threads that call the Metrics methods: position and locals of each
    order,      \* the iteration order of metrics.counters and metrics.histograms,
                \* followed where render_metrics is modelled
    fn          \* one call of query_messages or compute_stats on its own

vars == <<secret, rows, writer, clock, req, metrics, sig, lock, thr, order, fn>>

Reqs == 1..NReq

\* ------------------------------------------------------- request inputs
\* The secret the sender signs with.
SenderKey == <<1>>

DefaultQuery == [limit |-> 50, offset |-> 0, from_filter |-> None, since |-> None, q |-> None]

WebhookInput(body, xsig, xhub) ==
    [path |-> "/webhook", body |-> body, xsig |-> xsig, xhub |-> xhub, query |-> DefaultQuery]

GetInput(path, query) ==
    [path |-> path, body |-> <<>>, xsig |-> <<>>, xhub |-> <<>>, query |-> query]

WebhookInputs ==
    { \* a signed event, a signed event with the same message_id and other
      \* fields (scheme-prefixed digest in the second header), a signed event
      \* with another message_id
      WebhookInput(<<0, 0>>, HexDigest(SenderKey, <<0, 0>>), <<>>),
      WebhookInput(<<0, 1>>, <<>>, Sha256Prefix \o HexDigest(SenderKey, <<0, 1>>)),
      WebhookInput(<<1, 0>>, HexDigest(SenderKey, <<1, 0>>), <<>>),
      \* no signature, the digest of another body, a non-ASCII signature
      WebhookInput(<<0, 0>>, <<>>, <<>>),
      WebhookInput(<<0, 0>>, HexDigest(SenderKey, <<0, 1>>), HexDigest(SenderKey, <<0, 0>>)),
      WebhookInput(<<1, 0>>, <<NonAscii>>, <<>>),
      \* a signed body that fails validation
      WebhookInput(<<1, 1>>, HexDigest(SenderKey, <<1, 1>>), <<>>) }

QueryInputs ==
    { GetInput("/messages", DefaultQuery),
      GetInput("/messages", [limit |-> 1, offset |-> 1, from_filter |-> Some(<<"+", "1">>),
                             since |-> Some(Utc(2)), q |-> Some(<<"h">>)]),
      GetInput("/messages", [DefaultQuery EXCEPT !.limit = 0]) }

RequestInputs ==
    WebhookInputs \cup QueryInputs
    \cup {GetInput("/stats", DefaultQuery), GetInput("/health/ready", DefaultQuery),
          GetInput("/health/live", DefaultQuery)}

\* The latency the middleware measures, in ms.  What the value does to the
\* histogram is explored in SpecHist, over latencies around every bound.
Latencies == {300}

NewRequest ==
    [pc |-> "new", path |-> "", body |-> <<>>, xsig |-> <<>>, xhub |-> <<>>,
     query |-> DefaultQuery, now |-> 0, err |-> "none", inserted |-> "none",
     local |-> <<>>, exc |-> "none", status |-> 0, out |-> None]

NoSig == [secret |-> <<>>, xsig |-> <<>>, xhub |-> <<>>, signed |-> <<>>, body |-> <<>>,
          outcome |-> Raises("pending")]

\* The values of the variables a specification leaves alone.
NoThreads == <<>>
NoOrder == [counters |-> <<>>, histograms |-> <<>>]
NoCall == [op |-> "none"]

\* Settings() refuses an empty WEBHOOK_SECRET at start-up, but the settings
\* object is mutable and verify_signature and health_ready test the secret on
\* every request; both configurations are kept.
Init ==
    /\ secret \in {<<>>, SenderKey}
    /\ rows = <<>>
    /\ writer = 0
    /\ clock = 1
    /\ req = [r \in Reqs |-> NewRequest]
    /\ metrics = EmptyMetrics
    /\ sig = NoSig
    /\ lock = {}
    /\ thr = NoThreads
    /\ order = NoOrder
    /\ fn = NoCall

\* ------------------------------------------------- RequestLogMiddleware
\* dispatch up to call_next: the request is bound and status_code = 500.
\* Requests are numbered in their order of arrival.
CanArrive(r) == req[r].pc = "new" /\ (r > 1 => req[r - 1].pc # "new")

Arrived(inp) ==
    [NewRequest EXCEPT !.path = inp.path, !.body = inp.body, !.xsig = inp.xsig,
                       !.xhub = inp.xhub, !.query = inp.query, !.status = 500]

\* call_next returns a response: status_code = response.status_code.
Respond(q, status_code, out) ==
    [q EXCEPT !.pc = "respond", !.status = status_code, !.out = Some(out)]

\* call_next raises: status_code keeps its 500, which is also the status of
\* the response the server makes of an unhandled exception.
Fail(q, type) == [q EXCEPT !.pc = "respond", !.exc = type]

\* The finally block of dispatch: one record_http_request for the request,
\* under the path and the status code the middleware holds.
\* A middleware that records in the try block, after a successful response.
RecordOnlyOnSuccess(m, q, latency_ms) ==
    IF q.status < 400 THEN RecordHttpRequest(m, q.path, ToString(q.status), latency_ms) ELSE m

\* A middleware that records under the status_code it started with.
RecordInitialStatus(m, q, latency_ms) == RecordHttpRequest(m, q.path, "500", latency_ms)

\* The metrics call of the finally block.
DispatchFinally(m, q, latency_ms) ==
    RecordHttpRequest(m, q.path, ToString(q.status), latency_ms)

Finish(r) ==
    /\ req[r].pc = "respond"
    /\ \E latency_ms \in Latencies : metrics' = DispatchFinally(metrics, req[r], latency_ms)
    /\ req' = [req EXCEPT ![r].pc = "done"]
    /\ UNCHANGED <<lock, thr, order, fn, secret, rows, writer, clock, sig>>

\* --------------------------------------------------------- POST /webhook
Payload(q) == ParseBody(q.body)[1]

\* The route from its start to the first suspension inside insert_message:
\* body validation (422), verify_signature, then now = datetime.now() and the
\* connection is opened.
ReceiveWebhook(r) ==
    /\ CanArrive(r)
    /\ \E inp \in WebhookInputs :
          LET q == Arrived(inp)
              v == VerifySignature(secret, inp.xsig, inp.xhub, inp.body)
          IN  IF ParseBody(inp.body) = None THEN
                  /\ req' = [req EXCEPT ![r] = Respond(q, 422, [detail |-> "validation error"])]
                  /\ clock' = clock
              ELSE IF v.kind = "HTTPException" THEN
                  /\ req' = [req EXCEPT ![r] = Respond(q, v.status_code, [detail |-> v.detail])]
                  /\ clock' = clock
              ELSE IF v.kind # "return" THEN
                  /\ req' = [req EXCEPT ![r] = Fail(q, v.kind)]
                  /\ clock' = clock
              ELSE
                  /\ req' = [req EXCEPT ![r] = [q EXCEPT !.pc = "insert", !.now = clock]]
                  /\ clock' = clock + 1
    /\ UNCHANGED <<lock, thr, order, fn, secret, rows, writer, metrics, sig>>

\* insert_message after an error inside its connection block: the connection
\* is closed, then the except clause returns False or lets the error go.
AfterInsertError(q, err, type) ==
    IF OnInsertError(err) = "raise" THEN [Fail(q, type) EXCEPT !.err = err]
    ELSE [q EXCEPT !.pc = "close", !.err = err, !.inserted = OnInsertError(err)]

NewRow(q) == MakeRow(Payload(q), q.now)

\* db.execute(INSERT ...): the statement needs SQLite's write lock, which it
\* waits for while another connection holds it; with the lock, it fails on a
\* row with the same message_id and otherwise leaves the row uncommitted.
ExecuteInsert(r) ==
    /\ req[r].pc = "insert"
    /\ writer = 0
    /\ IF ~InsertStatement(rows, NewRow(req[r])).ok THEN
           /\ req' = [req EXCEPT ![r] = AfterInsertError(@, "IntegrityError: UNIQUE constraint failed",
                                                         "IntegrityError")]
           /\ writer' = writer
       ELSE
           /\ req' = [req EXCEPT ![r].pc = "commit"]
           /\ writer' = r
    /\ UNCHANGED <<lock, thr, order, fn, secret, rows, clock, metrics, sig>>

\* An insert_message that returns True with its row never committed.
ReturnWithoutCommit(r) ==
    /\ req[r].pc = "commit"
    /\ writer = r
    /\ rows' = rows
    /\ writer' = 0
    /\ req' = [req EXCEPT ![r].pc = "close", ![r].inserted = "True"]
    /\ UNCHANGED <<lock, thr, order, fn, secret, clock, metrics, sig>>

\* db.commit(): the row becomes visible, the lock is released, and the call
\* is about to return True.
CommitInsert(r) ==
    /\ req[r].pc = "commit"
    /\ writer = r
    /\ rows' = InsertStatement(rows, NewRow(req[r])).table
    /\ writer' = 0
    /\ req' = [req EXCEPT ![r].pc = "close", ![r].inserted = "True"]
    /\ UNCHANGED <<lock, thr, order, fn, secret, clock, metrics, sig>>

\* The backend fails the connection, the statement or the commit (the
\* database cannot be opened, the wait for the write lock times out, an I/O
\* error): sqlite3.OperationalError.  An uncommitted row is rolled back.
StoreFail(r) ==
    /\ req[r].pc \in {"insert", "commit"}
    /\ req' = [req EXCEPT ![r] = AfterInsertError(@, "OperationalError: database is locked",
                                                  "OperationalError")]
    /\ writer' = IF writer = r THEN 0 ELSE writer
    /\ UNCHANGED <<lock, thr, order, fn, secret, rows, clock, metrics, sig>>

\* The route after insert_message has returned: is_dup = not inserted,
\* record_webhook_result, and the response.
\* A route that answers a duplicate with 409, and one that records every
\* result as a success.
DupIsConflict(inserted) ==
    [result |-> IF inserted = "False" THEN "duplicate" ELSE "success",
     status_code |-> IF inserted = "False" THEN 409 ELSE 200,
     body |-> [status |-> IF inserted = "False" THEN "duplicate" ELSE "ok"]]

AlwaysSuccess(inserted) ==
    [result |-> "success", status_code |-> 200, body |-> [status |-> "ok"]]

WebhookOutcome(inserted) ==
    [result |-> IF inserted = "False" THEN "duplicate" ELSE "success",
     status_code |-> 200,
     body |-> [status |-> "ok"]]

RecordResult(r) ==
    /\ req[r].pc = "close"
    /\ LET o == WebhookOutcome(req[r].inserted)
       IN  /\ metrics' = RecordWebhookResult(metrics, o.result)
           /\ req' = [req EXCEPT ![r] = Respond(@, o.status_code, o.body)]
    /\ UNCHANGED <<lock, thr, order, fn, secret, rows, writer, clock, sig>>

\* --------------------------------------------------------- GET /messages
\* The route up to the connection of query_messages; limit outside 1..100
\* fails validation (422).
ReceiveMessages(r) ==
    /\ CanArrive(r)
    /\ \E inp \in QueryInputs :
          LET q == Arrived(inp)
          IN  req' = [req EXCEPT ![r] =
                        IF inp.query.limit \in 1..100 THEN [q EXCEPT !.pc = "count"]
                        ELSE Respond(q, 422, [detail |-> "validation error"])]
    /\ UNCHANGED <<lock, thr, order, fn, secret, rows, writer, clock, metrics, sig>>

\* SELECT COUNT(*) ...
QueryCount(r) ==
    /\ req[r].pc = "count"
    /\ req' = [req EXCEPT ![r].pc = "page", ![r].local = Some(QueryTotal(rows, req[r].query))]
    /\ UNCHANGED <<lock, thr, order, fn, secret, rows, writer, clock, metrics, sig>>

\* SELECT * ... LIMIT ? OFFSET ?, and the response of the route
QueryPage(r) ==
    /\ req[r].pc = "page"
    /\ LET f == req[r].query
       IN  req' = [req EXCEPT ![r] =
                     Respond(@, 200, [data |-> QueryData(rows, f, f.limit, f.offset),
                                      total |-> req[r].local[1],
                                      limit |-> f.limit, offset |-> f.offset])]
    /\ UNCHANGED <<lock, thr, order, fn, secret, rows, writer, clock, metrics, sig>>

\* ------------------------------------------------------------ GET /stats
ReceiveStats(r) ==
    /\ CanArrive(r)
    /\ req' = [req EXCEPT ![r] = [Arrived(GetInput("/stats", DefaultQuery)) EXCEPT !.pc = "stats1"]]
    /\ UNCHANGED <<lock, thr, order, fn, secret, rows, writer, clock, metrics, sig>>

\* SELECT COUNT(*) FROM messages
StatsTotal(r) ==
    /\ req[r].pc = "stats1"
    /\ req' = [req EXCEPT ![r].pc = "stats2",
                          ![r].local = [total_messages |-> StatTotal(rows)]]
    /\ UNCHANGED <<lock, thr, order, fn, secret, rows, writer, clock, metrics, sig>>

\* SELECT COUNT(DISTINCT from_msisdn) FROM messages
StatsSenders(r) ==
    /\ req[r].pc = "stats2"
    /\ req' = [req EXCEPT ![r].pc = "stats3",
                          ![r].local = DictPut(@, "senders_count", StatSenders(rows))]
    /\ UNCHANGED <<lock, thr, order, fn, secret, rows, writer, clock, metrics, sig>>

\* SELECT MIN(ts), MAX(ts) FROM messages
StatsFirstLast(r) ==
    /\ req[r].pc = "stats3"
    /\ req' = [req EXCEPT ![r].pc = "stats4",
                          ![r].local = DictPut(DictPut(@, "first_message_ts", StatFirst(rows)),
                                               "last_message_ts", StatLast(rows))]
    /\ UNCHANGED <<lock, thr, order, fn, secret, rows, writer, clock, metrics, sig>>

\* The top-senders SELECT, and the response of the route
StatsTop(r) ==
    /\ req[r].pc = "stats4"
    /\ \E top \in StatTopSenders(rows) :
          req' = [req EXCEPT ![r] = Respond(@, 200, DictPut(req[r].local, "messages_per_sender", top))]
    /\ UNCHANGED <<lock, thr, order, fn, secret, rows, writer, clock, metrics, sig>>

\* A statement of query_messages or compute_stats fails in the backend.
ReadFail(r) ==
    /\ req[r].pc \in {"count", "page", "stats1", "stats2", "stats3", "stats4"}
    /\ req' = [req EXCEPT ![r] = Fail(@, "OperationalError")]
    /\ UNCHANGED <<lock, thr, order, fn, secret, rows, writer, clock, metrics, sig>>

\* ----------------------------------------------------------- GET /health
ReceiveReady(r) ==
    /\ CanArrive(r)
    /\ req' = [req EXCEPT ![r] = [Arrived(GetInput("/health/ready", DefaultQuery)) EXCEPT !.pc = "ready"]]
    /\ UNCHANGED <<lock, thr, order, fn, secret, rows, writer, clock, metrics, sig>>

\* check_connection (True, or False on any exception) and the rest of
\* health_ready.
CheckConnection(r) ==
    /\ req[r].pc = "ready"
    /\ \E db_ok \in BOOLEAN :
          req' = [req EXCEPT ![r] =
                    IF db_ok /\ secret # <<>> THEN Respond(@, 200, [status |-> "ready"])
                    ELSE Respond(@, 503, [detail |-> "Not ready"])]
    /\ UNCHANGED <<lock, thr, order, fn, secret, rows, writer, clock, metrics, sig>>

HealthLive(r) ==
    /\ CanArrive(r)
    /\ req' = [req EXCEPT ![r] = Respond(Arrived(GetInput("/health/live", DefaultQuery)),
                                         200, [status |-> "alive"])]
    /\ UNCHANGED <<lock, thr, order, fn, secret, rows, writer, clock, metrics, sig>>

\* ------------------------------------------------------------ the service
Next ==
    \E r \in Reqs :
        \/ ReceiveWebhook(r) \/ ExecuteInsert(r) \/ CommitInsert(r) \/ StoreFail(r)
        \/ RecordResult(r)
        \/ ReceiveMessages(r) \/ QueryCount(r) \/ QueryPage(r)
        \/ ReceiveStats(r) \/ StatsTotal(r) \/ StatsSenders(r) \/ StatsFirstLast(r) \/ StatsTop(r)
        \/ ReadFail(r)
        \/ ReceiveReady(r) \/ CheckConnection(r) \/ HealthLive(r)
        \/ Finish(r)

Spec == Init /\ [][Next]_vars

\* ------------------------------------------------------------ cancellation
\* The task of a /webhook request is cancelled while insert_message waits on
\* the connection: CancelledError is raised at the await.  The connection
\* block is left, which closes the connection; an INSERT that was executed
\* is rolled back, unless the commit the connection's thread was already
\* asked for goes through.  CancelledError is no IntegrityError and no
\* Exception, so it passes insert_message, the route and the except clause
\* of dispatch, and reaches the finally block of dispatch.
Cancel(r) ==
    /\ req[r].pc \in {"insert", "commit"}
    /\ req' = [req EXCEPT ![r] = Fail(@, "CancelledError")]
    /\ \E landed \in BOOLEAN :
          rows' = IF landed /\ req[r].pc = "commit" /\ writer = r
                  THEN InsertStatement(rows, NewRow(req[r])).table ELSE rows
    /\ writer' = IF writer = r THEN 0 ELSE writer
    /\ UNCHANGED <<lock, thr, order, fn, secret, clock, metrics, sig>>

CancelNext == Next \/ \E r \in Reqs : Cancel(r)

\* The service with requests that may be cancelled.
SpecCancel == Init /\ [][CancelNext]_vars

\* -------------------------------------------- verify_signature on its own
Secrets == SeqsUpTo(ByteVals, 1)

\* Header values a sender may build from the hex digest d of the body it
\* signed: d itself, d under the scheme prefix, with a second "=" and a
\* suffix, under another scheme, d with its last character changed, d cut
\* short, the bare prefix, a non-ASCII value, and no header.
SigForms(d) ==
    { d,
      Sha256Prefix \o d,
      Sha256Prefix \o d \o <<"=", "0">>,
      <<"s", "h", "a", "1", "=">> \o d,
      Append(SubSeq(d, 1, Len(d) - 1), IF d[Len(d)] = "0" THEN "1" ELSE "0"),
      SubSeq(d, 1, Len(d) - 1),
      Sha256Prefix,
      <<NonAscii>>,
      <<>> }

SigCalls ==
    UNION { { [secret |-> k, xsig |-> x, xhub |-> h, signed |-> s, body |-> b,
               outcome |-> Raises("pending")] :
                  x \in SigForms(HexDigest(k, s)), h \in {<<>>, HexDigest(k, s)}, b \in Bodies }
            : k \in Secrets, s \in Bodies }

SigInit ==
    /\ secret = <<>>
    /\ rows = <<>>
    /\ writer = 0
    /\ clock = 1
    /\ req = [r \in Reqs |-> NewRequest]
    /\ metrics = EmptyMetrics
    /\ sig \in SigCalls
    /\ lock = {}
    /\ thr = NoThreads
    /\ order = NoOrder
    /\ fn = NoCall

SigVerify ==
    /\ sig.outcome.kind = "pending"
    /\ sig' = [sig EXCEPT !.outcome = VerifySignature(sig.secret, sig.xsig, sig.xhub, sig.body)]
    /\ UNCHANGED <<lock, thr, order, fn, secret, rows, writer, clock, req, metrics>>

SpecSig == SigInit /\ [][SigVerify]_vars

\* --------------------------------------------------- Metrics on its own
\* Latencies around every bucket bound.
HistLatencies == {0, 10, 11, 50, 100, 101, 200, 500, 750, 1000, 5000, 5001}

Observations(m) ==
    LET keys == DOMAIN m.counters
        RECURSIVE Sum(_)
        Sum(K) == IF K = {} THEN 0
                  ELSE LET k == CHOOSE x \in K : TRUE IN m.counters[k] + Sum(K \ {k})
    IN  Sum(keys)

HistObserve ==
    /\ Observations(metrics) < MaxObs
    /\ \E status \in {200, 401}, latency_ms \in HistLatencies :
          metrics' = RecordHttpRequest(metrics, "/webhook", ToString(status), latency_ms)
    /\ UNCHANGED <<lock, thr, order, fn, secret, rows, writer, clock, req, sig>>

HistWebhook ==
    /\ Observations(metrics) < MaxObs
    /\ \E result \in {"success", "duplicate"} : metrics' = RecordWebhookResult(metrics, result)
    /\ UNCHANGED <<lock, thr, order, fn, secret, rows, writer, clock, req, sig>>

HistInit ==
    /\ secret = SenderKey
    /\ rows = <<>>
    /\ writer = 0
    /\ clock = 1
    /\ req = [r \in Reqs |-> NewRequest]
    /\ metrics = EmptyMetrics
    /\ sig = NoSig
    /\ lock = {}
    /\ thr = NoThreads
    /\ order = NoOrder
    /\ fn = NoCall

HistNext == HistObserve \/ HistWebhook

SpecHist == HistInit /\ [][HistNext]_vars

\* ------------------------------------- Metrics under concurrent threads
\* Each thread makes one call of record_http_request, record_webhook_result
\* or render_metrics; a thread may be preempted between any two statements.
Threads == 1..NThreads

RegCalls ==
    {[op |-> "record_http_request", path |-> "/webhook", status |-> c[1], latency_ms |-> c[2],
      result |-> ""] : c \in {<<200, 7>>, <<200, 300>>, <<401, 7>>}}
    \cup {[op |-> "record_webhook_result", path |-> "", status |-> 0, latency_ms |-> 0,
           result |-> "success"],
          [op |-> "render_metrics", path |-> "", status |-> 0, latency_ms |-> 0, result |-> ""]}

\* tmp is the value self.counters.get(key, 0.0) returned, lines the list
\* render_metrics builds, and seen the registry as it was when the thread
\* entered render_metrics' with block (a history value, for the claims).
IdleThread ==
    [pc |-> "idle", op |-> "none", path |-> "", status |-> 0, latency_ms |-> 0, result |-> "",
     tmp |-> 0, lines |-> <<>>, seen |-> None]

\* threading.Lock: acquire goes through only while no thread holds the lock.
LockFree(l) == l = {}

\* Methods that update or read the dicts outside the lock.
RecordNoLock(l) == TRUE
RenderNoLock(l) == TRUE

\* "with self._lock" of the two record_* methods, and of render_metrics.
RecordMayEnter(l) == LockFree(l)
RenderMayEnter(l) == LockFree(l)

CounterKeyOf(c) ==
    IF c.op = "record_http_request" THEN HttpCounterKey(c.path, ToString(c.status))
    ELSE WebhookCounterKey(c.result)

HistKeyOf(c) == HistKey(c.path, ToString(c.status))

\* self.counters[key] = <value>
StoreCounter(m, key, value) == [m EXCEPT !.counters = DictPut(@, key, value)]

\* if hist_key not in self.histograms: the three dicts get their zero entries
InitHistogram(m, hist_key) ==
    IF hist_key \in DOMAIN m.histograms THEN m
    ELSE [m EXCEPT !.histograms = DictPut(@, hist_key, [i \in 1..(Len(LatencyBuckets) + 1) |-> 0]),
                   !.histogram_sums = DictPut(@, hist_key, 0),
                   !.histogram_counts = DictPut(@, hist_key, 0)]

\* The bucket loop and the +Inf bucket, on a series that exists.
ObserveBuckets(m, hist_key, latency_ms) ==
    [m EXCEPT !.histograms[hist_key] = UpdateBuckets(@, latency_ms)]

\* self.histogram_sums[hist_key] += latency_ms
AddSum(m, hist_key, latency_ms) == [m EXCEPT !.histogram_sums[hist_key] = @ + latency_ms]

\* self.histogram_counts[hist_key] += 1
AddCount(m, hist_key) == [m EXCEPT !.histogram_counts[hist_key] = @ + 1]

\* ---- render_metrics
\* The label keys of the registry in the order str comparison gives them.
LabelKeyOrder == <<"le", "path", "result", "status">>

KeyRank(k) == CHOOSE i \in 1..Len(LabelKeyOrder) : LabelKeyOrder[i] = k

\* The pairs of a label set from the greatest key down.
DescendingPairs(label_key) ==
    LET RECURSIVE Down(_)
        Down(S) == IF S = {} THEN <<>>
                   ELSE LET p == CHOOSE x \in S : \A y \in S : KeyRank(x[1]) >= KeyRank(y[1])
                        IN  <<p>> \o Down(S \ {p})
    IN  Down(label_key)

\* sorted(label_key): the (key, value) pairs of a label set in ascending
\* order; the keys of one label set are distinct.
SortedPairs(label_key) ==
    LET RECURSIVE Up(_)
        Up(S) == IF S = {} THEN <<>>
                 ELSE LET p == CHOOSE x \in S : \A y \in S : KeyRank(x[1]) <= KeyRank(y[1])
                      IN  <<p>> \o Up(S \ {p})
    IN  Up(label_key)

\* One line of the exposition text, name{k="v",...} value: its name, its label
\* pairs in the order they are written, and its value, which is written as a
\* float ("2.0") or as an int ("2").
Line(name, labels, value, float) ==
    [name |-> name, labels |-> labels, value |-> value, float |-> float]

\* The counter loop: one line for each key of self.counters, in dict order.
RenderCounters(m, ord) ==
    [i \in 1..Len(ord.counters) |->
        LET key == ord.counters[i]
        IN  Line(key[1], SortedPairs(key[2]), m.counters[key], TRUE)]

\* The lines of one histogram: a bucket line for each bound, the +Inf bucket,
\* the sum and the count.
RenderHistogram(m, key) ==
    LET base == SortedPairs(key[2])
        buckets == m.histograms[key]
    IN  [i \in 1..Len(LatencyBuckets) |->
            Line(key[1] \o "_bucket", Append(base, <<"le", ToString(LatencyBuckets[i])>>),
                 buckets[i], TRUE)]
        \o <<Line(key[1] \o "_bucket", Append(base, <<"le", "+Inf">>), buckets[Len(buckets)], TRUE),
             Line(key[1] \o "_sum", base, m.histogram_sums[key], TRUE),
             Line(key[1] \o "_count", base, m.histogram_counts[key], FALSE)>>

\* The histogram loop, over the keys of self.histograms in dict order.
RenderHistograms(m, ord) ==
    LET RECURSIVE From(_)
        From(i) == IF i > Len(ord.histograms) THEN <<>>
                   ELSE RenderHistogram(m, ord.histograms[i]) \o From(i + 1)
    IN  From(1)

\* ---- the steps of a thread
\* A thread starts its call.  Threads are numbered in their order of starting.
RegCall(t) ==
    /\ thr[t].pc = "idle"
    /\ t > 1 => thr[t - 1].pc # "idle"
    /\ \E c \in RegCalls :
          thr' = [thr EXCEPT ![t] = [IdleThread EXCEPT !.pc = "enter", !.op = c.op, !.path = c.path,
                                                       !.status = c.status, !.latency_ms = c.latency_ms,
                                                       !.result = c.result]]
    /\ UNCHANGED <<secret, rows, writer, clock, req, metrics, sig, lock, order, fn>>

\* with self._lock, in record_http_request and record_webhook_result
RecordEnter(t) ==
    /\ thr[t].pc = "enter"
    /\ thr[t].op \in {"record_http_request", "record_webhook_result"}
    /\ RecordMayEnter(lock)
    /\ lock' = lock \cup {t}
    /\ thr' = [thr EXCEPT ![t].pc = "get"]
    /\ UNCHANGED <<secret, rows, writer, clock, req, metrics, sig, order, fn>>

\* self.counters.get(key, 0.0)
CounterGet(t) ==
    /\ thr[t].pc = "get"
    /\ thr' = [thr EXCEPT ![t].pc = "set", ![t].tmp = DictGet(metrics.counters, CounterKeyOf(thr[t]), 0)]
    /\ UNCHANGED <<secret, rows, writer, clock, req, metrics, sig, lock, order, fn>>

\* self.counters[key] = ... + 1.0
CounterSet(t) ==
    /\ thr[t].pc = "set"
    /\ metrics' = StoreCounter(metrics, CounterKeyOf(thr[t]), thr[t].tmp + 1)
    /\ order' = [order EXCEPT !.counters = OrderPut(@, CounterKeyOf(thr[t]))]
    /\ thr' = [thr EXCEPT ![t].pc = IF thr[t].op = "record_http_request" THEN "hist" ELSE "exit"]
    /\ UNCHANGED <<secret, rows, writer, clock, req, sig, lock, fn>>

\* The histogram entry is made if it is missing, and the buckets are updated.
HistBuckets(t) ==
    /\ thr[t].pc = "hist"
    /\ metrics' = ObserveBuckets(InitHistogram(metrics, HistKeyOf(thr[t])), HistKeyOf(thr[t]),
                                 thr[t].latency_ms)
    /\ order' = [order EXCEPT !.histograms = OrderPut(@, HistKeyOf(thr[t]))]
    /\ thr' = [thr EXCEPT ![t].pc = "sum"]
    /\ UNCHANGED <<secret, rows, writer, clock, req, sig, lock, fn>>

HistSum(t) ==
    /\ thr[t].pc = "sum"
    /\ metrics' = AddSum(metrics, HistKeyOf(thr[t]), thr[t].latency_ms)
    /\ thr' = [thr EXCEPT ![t].pc = "count"]
    /\ UNCHANGED <<secret, rows, writer, clock, req, sig, lock, order, fn>>

HistCount(t) ==
    /\ thr[t].pc = "count"
    /\ metrics' = AddCount(metrics, HistKeyOf(thr[t]))
    /\ thr' = [thr EXCEPT ![t].pc = "exit"]
    /\ UNCHANGED <<secret, rows, writer, clock, req, sig, lock, order, fn>>

\* with self._lock, in render_metrics
RenderEnter(t) ==
    /\ thr[t].pc = "enter"
    /\ thr[t].op = "render_metrics"
    /\ RenderMayEnter(lock)
    /\ lock' = lock \cup {t}
    /\ thr' = [thr EXCEPT ![t].pc = "counters", ![t].seen = Some(<<metrics, order>>)]
    /\ UNCHANGED <<secret, rows, writer, clock, req, metrics, sig, order, fn>>

RenderCounterLines(t) ==
    /\ thr[t].pc = "counters"
    /\ thr' = [thr EXCEPT ![t].pc = "histograms", ![t].lines = RenderCounters(metrics, order)]
    /\ UNCHANGED <<secret, rows, writer, clock, req, metrics, sig, lock, order, fn>>

RenderHistogramLines(t) ==
    /\ thr[t].pc = "histograms"
    /\ thr' = [thr EXCEPT ![t].pc = "exit", ![t].lines = @ \o RenderHistograms(metrics, order)]
    /\ UNCHANGED <<secret, rows, writer, clock, req, metrics, sig, lock, order, fn>>

\* The end of the with block releases the lock, and the method returns (for
\* render_metrics, the lines joined, each ended by a newline).
RegExit(t) ==
    /\ thr[t].pc = "exit"
    /\ lock' = lock \ {t}
    /\ thr' = [thr EXCEPT ![t].pc = "done"]
    /\ UNCHANGED <<secret, rows, writer, clock, req, metrics, sig, order, fn>>

RegStep(t) ==
    \/ RegCall(t) \/ RecordEnter(t) \/ CounterGet(t) \/ CounterSet(t)
    \/ HistBuckets(t) \/ HistSum(t) \/ HistCount(t)
    \/ RenderEnter(t) \/ RenderCounterLines(t) \/ RenderHistogramLines(t)
    \/ RegExit(t)

RegInit ==
    /\ secret = SenderKey
    /\ rows = <<>>
    /\ writer = 0
    /\ clock = 1
    /\ req = [r \in Reqs |-> NewRequest]
    /\ metrics = EmptyMetrics
    /\ sig = NoSig
    /\ lock = {}
    /\ thr = [t \in Threads |-> IdleThread]
    /\ order = NoOrder
    /\ fn = NoCall

RegNext == \E t \in Threads : RegStep(t)

SpecReg == RegInit /\ [][RegNext]_vars

\* The scheduler runs every thread that can take a step.
SpecRegLive == SpecReg /\ \A t \in Threads : WF_vars(RegStep(t))

\* ------------------------------------------- query_messages on its own
\* The events the rows of the table come from: two of them carry the same
\* timestamp, one has a microsecond part.
QueryPayloads ==
    { [message_id |-> <<"m", "1">>, sender |-> <<"+", "1">>, receiver |-> <<"+", "9">>, ts |-> Utc(1),
       text |-> Some(<<"H", "i">>)],
      [message_id |-> <<"m", "2">>, sender |-> <<"+", "2">>, receiver |-> <<"+", "9">>, ts |-> Utc(2),
       text |-> None],
      [message_id |-> <<"m", "3">>, sender |-> <<"+", "1">>, receiver |-> <<"+", "8">>, ts |-> Utc(2),
       text |-> Some(<<"h", "i">>)],
      [message_id |-> <<"m", "4">>, sender |-> <<"+", "1">>, receiver |-> <<"+", "9">>,
       ts |-> [sec |-> 1, usec |-> 5, tz |-> "utc"], text |-> Some(<<"h">>)] }

\* The tables of at most MaxRows rows with distinct message_ids, in every
\* order of insertion.
QueryTables ==
    {[i \in 1..Len(sq) |-> MakeRow(sq[i], i)] :
        sq \in {x \in SeqsUpTo(QueryPayloads, MaxRows) :
                   \A i, j \in 1..Len(x) : i # j => x[i].message_id # x[j].message_id}}

\* Values of the since parameter, which FastAPI parses to a datetime with the
\* offset it was written with, or with none.
SinceValues ==
    { None, Some(Utc(2)), Some([sec |-> 1, usec |-> 5, tz |-> "utc"]),
      Some([sec |-> 2, usec |-> 0, tz |-> "+1"]), Some([sec |-> 3, usec |-> 0, tz |-> "+1"]),
      Some([sec |-> 2, usec |-> 0, tz |-> "naive"]) }

FromValues == {None, Some(<<"+", "1">>), Some(<<>>)}

\* Values of the q parameter: letters in either case, the two characters
\* LIKE reads as wildcards, and the empty string.
QValues == {Some(<<"h", "i">>), Some(<<"H">>), Some(<<"%">>), Some(<<"_">>), Some(<<>>)}

\* A client that reads the matching rows page by page: the call in progress
\* (limit, offset, filter, the total and the data it returns) and the
\* concatenation of the pages returned so far.
QueryCalls ==
    {[op |-> "query_messages", pc |-> "count", limit |-> l, offset |-> 0, from_filter |-> f,
      since |-> t, q |-> None, total |-> 0, data |-> <<>>, pages |-> <<>>] :
        l \in {1, 2}, f \in FromValues, t \in SinceValues}
    \cup
    {[op |-> "query_messages", pc |-> "count", limit |-> l, offset |-> 0, from_filter |-> f,
      since |-> None, q |-> x, total |-> 0, data |-> <<>>, pages |-> <<>>] :
        l \in {1, 2}, f \in {None, Some(<<"+", "1">>)}, x \in QValues}

QueryInit ==
    /\ secret = SenderKey
    /\ rows \in QueryTables
    /\ writer = 0
    /\ clock = 1
    /\ req = [r \in Reqs |-> NewRequest]
    /\ metrics = EmptyMetrics
    /\ sig = NoSig
    /\ lock = {}
    /\ thr = NoThreads
    /\ order = NoOrder
    /\ fn \in QueryCalls

\* SELECT COUNT(*) with the filter
QueryMessagesCount ==
    /\ fn.op = "query_messages" /\ fn.pc = "count"
    /\ fn' = [fn EXCEPT !.pc = "page", !.total = QueryTotal(rows, fn)]
    /\ UNCHANGED <<secret, rows, writer, clock, req, metrics, sig, lock, thr, order>>

\* SELECT * with the filter, ORDER BY, LIMIT and OFFSET; the call returns
\* (data, total).
QueryMessagesPage ==
    /\ fn.op = "query_messages" /\ fn.pc = "page"
    /\ LET data == QueryData(rows, fn, fn.limit, fn.offset)
       IN  fn' = [fn EXCEPT !.pc = "returned", !.data = data, !.pages = @ \o data]
    /\ UNCHANGED <<secret, rows, writer, clock, req, metrics, sig, lock, thr, order>>

\* The client asks for the next page, until a page comes back empty.
NextOffset ==
    /\ fn.op = "query_messages" /\ fn.pc = "returned"
    /\ fn.data # <<>>
    /\ fn' = [fn EXCEPT !.pc = "count", !.offset = @ + fn.limit]
    /\ UNCHANGED <<secret, rows, writer, clock, req, metrics, sig, lock, thr, order>>

QueryNext == QueryMessagesCount \/ QueryMessagesPage \/ NextOffset

SpecQuery == QueryInit /\ [][QueryNext]_vars

\* -------------------------------------------- compute_stats on its own
\* The k-th sender, and the event of row i of a table, sent by sender k:
\* timestamps repeat and every fourth has a microsecond part.
Sender(k) == <<"+", Digit(k \div 10), Digit(k % 10)>>

StatsPayload(i, k) ==
    [message_id |-> <<"s", Digit(i \div 10), Digit(i % 10)>>, sender |-> Sender(k),
     receiver |-> <<"+", "9">>, ts |-> [sec |-> 1 + (i % 3), usec |-> IF i % 4 = 0 THEN 5 ELSE 0, tz |-> "utc"],
     text |-> None]

\* Tables with n senders: one row of each sender in turn, then up to two more
\* rows of the first or the last sender.
StatsTables ==
    UNION { { LET sq == [i \in 1..n |-> i] \o extra
              IN  [i \in 1..Len(sq) |-> MakeRow(StatsPayload(i, sq[i]), i)] :
                extra \in SeqsUpTo({1, n} \cap (1..n), 2) }
            : n \in 0..MaxSenders }

\* One compute_stats call after another on a table no request writes to.
\* plan is the result the top-senders statement gives on this table: among
\* senders with equal counts the order is SQLite's to choose, and SQLite
\* chooses the same on every execution over one database.  first is the
\* dict the first call returned.
StatsInit ==
    /\ secret = SenderKey
    /\ rows \in StatsTables
    /\ writer = 0
    /\ clock = 1
    /\ req = [r \in Reqs |-> NewRequest]
    /\ metrics = EmptyMetrics
    /\ sig = NoSig
    /\ lock = {}
    /\ thr = NoThreads
    /\ order = NoOrder
    /\ \E plan \in StatTopSenders(rows) :
          fn = [op |-> "compute_stats", pc |-> "total", plan |-> plan, stats |-> <<>>, first |-> None]

\* SELECT COUNT(*) FROM messages
ComputeTotal ==
    /\ fn.op = "compute_stats" /\ fn.pc = "total"
    /\ fn' = [fn EXCEPT !.pc = "senders", !.stats = [total_messages |-> StatTotal(rows)]]
    /\ UNCHANGED <<secret, rows, writer, clock, req, metrics, sig, lock, thr, order>>

\* SELECT COUNT(DISTINCT from_msisdn) FROM messages
ComputeSenders ==
    /\ fn.op = "compute_stats" /\ fn.pc = "senders"
    /\ fn' = [fn EXCEPT !.pc = "first_last", !.stats = DictPut(@, "senders_count", StatSenders(rows))]
    /\ UNCHANGED <<secret, rows, writer, clock, req, metrics, sig, lock, thr, order>>

\* SELECT MIN(ts), MAX(ts) FROM messages
ComputeFirstLast ==
    /\ fn.op = "compute_stats" /\ fn.pc = "first_last"
    /\ fn' = [fn EXCEPT !.pc = "top",
                        !.stats = DictPut(DictPut(@, "first_message_ts", StatFirst(rows)),
                                          "last_message_ts", StatLast(rows))]
    /\ UNCHANGED <<secret, rows, writer, clock, req, metrics, sig, lock, thr, order>>

\* The top-senders statement, and return stats
ComputeTop ==
    /\ fn.op = "compute_stats" /\ fn.pc = "top"
    /\ fn' = [fn EXCEPT !.pc = "returned", !.stats = DictPut(@, "messages_per_sender", fn.plan)]
    /\ UNCHANGED <<secret, rows, writer, clock, req, metrics, sig, lock, thr, order>>

\* The caller keeps the first result and calls again.
ComputeAgain ==
    /\ fn.op = "compute_stats" /\ fn.pc = "returned" /\ fn.first = None
    /\ fn' = [fn EXCEPT !.pc = "total", !.first = Some(fn.stats), !.stats = <<>>]
    /\ UNCHANGED <<secret, rows, writer, clock, req, metrics, sig, lock, thr, order>>

StatsNext == ComputeTotal \/ ComputeSenders \/ ComputeFirstLast \/ ComputeTop \/ ComputeAgain

SpecStats == StatsInit /\ [][StatsNext]_vars

\* ================================================================ claims
MessageIds == {<<"m", "1">>, <<"m", "2">>}

IsWebhook(r) == req[r].pc # "new" /\ req[r].path = "/webhook"

\* The /webhook requests that passed validation.
WellTyped(r) == IsWebhook(r) /\ ParseBody(req[r].body) # None

\* What verify_signature makes of each webhook input under each configured
\* secret, and of the input of request r under the secret in force.
VerdictOf ==
    [c \in {<<k, inp.xsig, inp.xhub, inp.body>> : k \in {<<>>, SenderKey}, inp \in WebhookInputs} |->
        VerifySignature(c[1], c[2], c[3], c[4])]

Verdict(r) == VerdictOf[<<secret, req[r].xsig, req[r].xhub, req[r].body>>]

\* The insert_message calls made so far (each took its timestamp on entry),
\* and those made with a message_id.
InsertCalls == {r \in Reqs : IsWebhook(r) /\ req[r].now # 0}

CallsFor(mid) == {r \in InsertCalls : Payload(req[r]).message_id = mid}

Counter(key) == DictGet(metrics.counters, key, 0)

BackendFailed(r) == req[r].err = "OperationalError: database is locked"

\* The requests for which the route has run record_webhook_result.
Recorded == {r \in Reqs : IsWebhook(r) /\ req[r].pc \in {"respond", "done"}
                          /\ req[r].inserted \in {"True", "False"}}

\* C1: among the insert_message calls that carry one message_id, in any
\* interleaving, at most one returns True, exactly one once all of them have
\* returned; a call returns, True or False, only with the row committed; and
\* the table never holds two rows with the message_id.
AtomicDedup ==
    \A mid \in MessageIds :
        LET n == Cardinality(RowsWithId(rows, mid))
            calls == CallsFor(mid)
            inserted == {r \in calls : req[r].inserted = "True"}
        IN  /\ n <= 1
            /\ Cardinality(inserted) <= 1
            /\ \A r \in calls : req[r].inserted \in {"True", "False"} => n = 1
            /\ \A r \in calls : req[r].pc = "close" => req[r].inserted \in {"True", "False"}
            /\ (calls # {} /\ \A r \in calls : req[r].inserted \in {"True", "False"}) =>
                  Cardinality(inserted) = 1

\* Two interleaved calls with one message_id have both returned, one True and
\* one False.
AtomicDedupWitness ==
    \E mid \in MessageIds : \E r1, r2 \in CallsFor(mid) :
        /\ req[r1].pc = "close" /\ req[r1].inserted = "True"
        /\ req[r2].pc = "close" /\ req[r2].inserted = "False"

\* A step leaves every committed row in its place.
RowsOnlyAppended ==
    /\ Len(rows') >= Len(rows)
    /\ \A i \in 1..Len(rows) : rows'[i] = rows[i]

\* The rows of the table are the rows of the calls that returned True.
RowsAreFirstInserts ==
    /\ \A r \in Reqs : (WellTyped(r) /\ req[r].inserted = "True") =>
          \E i \in 1..Len(rows) : rows[i] = NewRow(req[r])
    /\ \A i \in 1..Len(rows) :
          \E r \in Reqs : WellTyped(r) /\ req[r].inserted = "True" /\ rows[i] = NewRow(req[r])

\* C2: a stored row is never changed or removed by any operation (the table
\* only grows at its end), and the row of every call that returned True is in
\* the table as that call wrote it, whatever calls with the same message_id
\* came later.
RowsImmutable == []RowsAreFirstInserts /\ [][RowsOnlyAppended]_vars

\* A second event with a stored message_id and other fields was answered,
\* and the row is the first event's.
RowsImmutableWitness ==
    \E r1, r2 \in Reqs :
        /\ WellTyped(r1) /\ WellTyped(r2)
        /\ req[r1].inserted = "True" /\ req[r2].inserted = "False" /\ req[r2].pc = "done"
        /\ Payload(req[r1]).message_id = Payload(req[r2]).message_id
        /\ Payload(req[r1]).sender # Payload(req[r2]).sender
        /\ rows = <<NewRow(req[r1])>>

\* C3: a /webhook request whose insert returned, True or False alike, is
\* answered 200 with the body {"status": "ok"}.
SameResponseForDuplicate ==
    \A r \in Reqs :
        (IsWebhook(r) /\ req[r].inserted \in {"True", "False"} /\ req[r].pc \in {"respond", "done"}) =>
            /\ req[r].status = 200
            /\ req[r].out = Some([status |-> "ok"])
            /\ req[r].exc = "none"

SameResponseWitness ==
    \E r1, r2 \in Reqs :
        /\ IsWebhook(r1) /\ IsWebhook(r2)
        /\ req[r1].pc = "done" /\ req[r1].inserted = "True"
        /\ req[r2].pc = "done" /\ req[r2].inserted = "False"
        /\ req[r1].status = req[r2].status /\ req[r1].out = req[r2].out

\* C4: webhook_requests_total{result="success"} counts exactly the requests
\* whose insert returned True and {result="duplicate"} exactly those whose
\* insert returned False, one increment for each.
WebhookResultCounted ==
    /\ Counter(WebhookCounterKey("success")) =
          Cardinality({r \in Recorded : req[r].inserted = "True"})
    /\ Counter(WebhookCounterKey("duplicate")) =
          Cardinality({r \in Recorded : req[r].inserted = "False"})

WebhookResultWitness ==
    /\ Counter(WebhookCounterKey("success")) = 1
    /\ Counter(WebhookCounterKey("duplicate")) = 1

\* C5: a /webhook request whose signature verification fails never reaches
\* insert_message, adds no row, and is answered 401 or 503.
AuthFailureSkipsStore ==
    \A r \in Reqs :
        (WellTyped(r) /\ Verdict(r).kind # "return") =>
            /\ req[r].pc \in {"respond", "done"}
            /\ req[r].inserted = "none" /\ req[r].err = "none"
            /\ \A i \in 1..Len(rows) : rows[i].created_at # req[r].now
            /\ req[r].status \in {401, 503}

\* C6: a /webhook request rejected by verify_signature is counted once, in
\* http_requests_total{path="/webhook"} under its 401 or 503, and in neither
\* webhook_requests_total series.
RejectionCounted ==
    /\ \A code \in {401, 503} :
          Counter(HttpCounterKey("/webhook", ToString(code))) =
              Cardinality({r \in Reqs : /\ WellTyped(r) /\ req[r].pc = "done"
                                        /\ Verdict(r).kind = "HTTPException"
                                        /\ Verdict(r).status_code = code})
    /\ Counter(WebhookCounterKey("success")) + Counter(WebhookCounterKey("duplicate")) =
          Cardinality({r \in Recorded : Verdict(r).kind = "return"})

RejectionCountedWitness ==
    \E r \in Reqs :
        /\ WellTyped(r) /\ req[r].pc = "done" /\ req[r].status = 401
        /\ Counter(HttpCounterKey("/webhook", "401")) = 1
        /\ Counter(WebhookCounterKey("success")) = 1

\* The header value verify_signature looks at.
Presented == PickSignature(sig.xsig, sig.xhub)

\* C7: with a non-empty secret, the hex HMAC of a body verifies against that
\* body and is rejected with 401 against every other body.
SignatureRoundTrip ==
    (/\ sig.outcome.kind # "pending"
     /\ sig.secret # <<>>
     /\ Presented = HexDigest(sig.secret, sig.signed)) =>
        IF sig.body = sig.signed THEN sig.outcome = Returns
        ELSE sig.outcome = HTTPException(401, "invalid signature")

\* The signature of one body was rejected against a body of the same length
\* that differs in one byte.
SignatureRoundTripWitness ==
    /\ sig.secret # <<>>
    /\ Presented = HexDigest(sig.secret, sig.signed)
    /\ Len(sig.body) = Len(sig.signed)
    /\ Cardinality({i \in 1..Len(sig.body) : sig.body[i] # sig.signed[i]}) = 1
    /\ sig.outcome = HTTPException(401, "invalid signature")

\* C8: verification fails with 503 whenever the secret is empty; otherwise
\* with 401 "invalid signature" when no signature is supplied; otherwise with
\* 401 "invalid signature" when the digest differs from the computed one; and
\* it succeeds on no other input.
SignaturePrecedence ==
    sig.outcome.kind # "pending" =>
        IF sig.secret = <<>> THEN sig.outcome = HTTPException(503, "Server configuration error")
        ELSE IF Presented = <<>> THEN sig.outcome = HTTPException(401, "invalid signature")
        ELSE IF SigHash(Presented) # HexDigest(sig.secret, sig.body)
             THEN sig.outcome = HTTPException(401, "invalid signature")
        ELSE sig.outcome = Returns

\* C9: a backend failure inside insert_message is returned as neither True
\* nor False, ends the request with status 500, and is counted in neither
\* webhook_requests_total series.
StoreErrorPropagates ==
    /\ \A r \in Reqs :
          (IsWebhook(r) /\ BackendFailed(r)) =>
              /\ req[r].inserted = "none"
              /\ req[r].exc = "OperationalError"
              /\ req[r].status = 500
              /\ req[r].out = None
    /\ Counter(WebhookCounterKey("success")) + Counter(WebhookCounterKey("duplicate")) =
          Cardinality({r \in Recorded : ~BackendFailed(r)})

StoreErrorWitness ==
    \E r \in Reqs :
        /\ IsWebhook(r) /\ BackendFailed(r) /\ req[r].pc = "done"
        /\ Counter(HttpCounterKey("/webhook", "500")) = 1

\* C10: in every series of request_latency_ms the bucket counts never
\* decrease along the bounds 10, 50, ..., 5000, +Inf, and the +Inf count is
\* the series' observation count.
HistogramCumulative ==
    \A k \in DOMAIN metrics.histograms :
        LET b == metrics.histograms[k]
        IN  /\ \A i \in 2..Len(b) : b[i] >= b[i - 1]
            /\ b[Len(b)] = metrics.histogram_counts[k]

\* A series with observations in three different buckets.
HistogramWitness ==
    \E k \in DOMAIN metrics.histograms :
        LET b == metrics.histograms[k]
        IN  b[1] = 1 /\ b[4] = 2 /\ b[Len(b)] = 3

\* The record_* threads whose counter store has happened, whose sum has been
\* added and whose count has been added.
Recorders == {t \in Threads : thr[t].op \in {"record_http_request", "record_webhook_result"}}

Incremented == {t \in Recorders : thr[t].pc \in {"hist", "sum", "count", "exit", "done"}}

SumAdded == {t \in Recorders : thr[t].op = "record_http_request" /\ thr[t].pc \in {"count", "exit", "done"}}

CountAdded == {t \in Recorders : thr[t].op = "record_http_request" /\ thr[t].pc \in {"exit", "done"}}

RECURSIVE SumLatency(_)
SumLatency(T) ==
    IF T = {} THEN 0 ELSE LET t == CHOOSE x \in T : TRUE IN thr[t].latency_ms + SumLatency(T \ {t})

AllDone == \A t \in Threads : thr[t].pc = "done"

\* C11: in every interleaving of record_webhook_result and
\* record_http_request calls from concurrent threads, each counter holds the
\* number of calls on its series whose increment has happened, and each
\* histogram count and sum the number and the sum of the observations made;
\* once every call has returned these are the numbers of calls made.
NoLostUpdates ==
    /\ \A c \in RegCalls :
          c.op # "render_metrics" =>
              Counter(CounterKeyOf(c)) =
                  Cardinality({t \in Incremented : CounterKeyOf(thr[t]) = CounterKeyOf(c)})
    /\ \A c \in RegCalls :
          c.op = "record_http_request" =>
              /\ DictGet(metrics.histogram_counts, HistKeyOf(c), 0) =
                    Cardinality({t \in CountAdded : HistKeyOf(thr[t]) = HistKeyOf(c)})
              /\ DictGet(metrics.histogram_sums, HistKeyOf(c), 0) =
                    SumLatency({t \in SumAdded : HistKeyOf(thr[t]) = HistKeyOf(c)})
    /\ AllDone =>
          \A c \in RegCalls :
              c.op # "render_metrics" =>
                  Counter(CounterKeyOf(c)) =
                      Cardinality({t \in Recorders : CounterKeyOf(thr[t]) = CounterKeyOf(c)})

\* Calls on one series with different latencies: one has returned, one is
\* between its read of the counter and its store, and one waits for the lock.
NoLostUpdatesWitness ==
    /\ \A t \in Threads : thr[t].op = "record_http_request" /\ thr[t].status = 200
    /\ \E t, u, v \in Threads :
          /\ thr[t].pc = "done"
          /\ thr[u].pc = "set" /\ thr[u].tmp = 1 /\ thr[u].latency_ms # thr[t].latency_ms
          /\ thr[v].pc = "enter"

\* The render_metrics calls that have returned, and the text of one.
Rendered == {t \in Threads : thr[t].op = "render_metrics" /\ thr[t].pc = "done"}

\* The label pairs of a line are in ascending order of their keys, except
\* that a bucket line ends with its le pair, and only a bucket line has one.
LabelsSorted(line) ==
    LET n == Len(line.labels)
        bucket == \E i \in 1..n : line.labels[i][1] = "le"
        base == IF bucket THEN n - 1 ELSE n
    IN  /\ \A i \in 1..base : line.labels[i][1] # "le"
        /\ \A i \in 2..base : KeyRank(line.labels[i - 1][1]) < KeyRank(line.labels[i][1])
        /\ bucket <=> line.name = "request_latency_ms_bucket"

\* C12: two render_metrics calls that find the registry in the same state
\* (no record_* call came between them) return the same text, line for line,
\* and in every line of a rendered text the label pairs are sorted by key,
\* with le last on the bucket lines.
RenderDeterministic ==
    /\ \A t, u \in Rendered : thr[t].seen = thr[u].seen => thr[t].lines = thr[u].lines
    /\ \A t \in Rendered : \A i \in 1..Len(thr[t].lines) : LabelsSorted(thr[t].lines[i])

\* Two calls have rendered the same registry, which holds a counter with two
\* labels and a histogram.
RenderDeterministicWitness ==
    \E t, u \in Rendered :
        /\ t # u
        /\ thr[t].seen = thr[u].seen
        /\ thr[t].lines = thr[u].lines
        /\ Len(thr[t].lines) = 1 + Len(LatencyBuckets) + 3
        /\ thr[t].lines[1].labels = <<<<"path", "/webhook">>, <<"status", "200">>>>

\* In one rendered text, every http_requests_total line has a
\* request_latency_ms_count line and a +Inf bucket line with its label set
\* and its value, and every request_latency_ms_count line has its
\* http_requests_total line.
SnapshotOf(lines) ==
    LET L == 1..Len(lines)
    IN  /\ \A i \in L :
              lines[i].name = "http_requests_total" =>
                  /\ \E j \in L : /\ lines[j].name = "request_latency_ms_count"
                                  /\ lines[j].labels = lines[i].labels
                                  /\ lines[j].value = lines[i].value
                  /\ \E j \in L : /\ lines[j].name = "request_latency_ms_bucket"
                                  /\ lines[j].labels = Append(lines[i].labels, <<"le", "+Inf">>)
                                  /\ lines[j].value = lines[i].value
        /\ \A j \in L :
              lines[j].name = "request_latency_ms_count" =>
                  \E i \in L : /\ lines[i].name = "http_requests_total"
                               /\ lines[i].labels = lines[j].labels

SnapshotConsistent == \A t \in Rendered : SnapshotOf(thr[t].lines)

\* Every record_* call made so far has returned.
RecordersReturned == \A t \in Recorders : thr[t].pc = "done"

\* C13: no text render_metrics returns shows a part of a
\* record_http_request (in every text, http_requests_total of a label set
\* equals request_latency_ms_count and the +Inf bucket of that label set), and
\* under fair scheduling every record_* call returns, whatever renders run
\* beside it (from some point on, every call that was made has returned).
RenderSnapshot == []SnapshotConsistent /\ <>[]RecordersReturned

\* A render holds a complete text that shows one request, while a
\* record_http_request call on that series waits for the lock.
RenderSnapshotWitness ==
    \E t, u \in Threads :
        /\ thr[t].op = "render_metrics" /\ thr[t].pc = "exit"
        /\ Len(thr[t].lines) = 1 + Len(LatencyBuckets) + 3
        /\ thr[t].lines[1].value = 1
        /\ thr[u].op = "record_http_request" /\ thr[u].pc = "enter" /\ thr[u].status = 200

\* The instant a datetime denotes, in tenths of the unit of sec: the offset
\* "+1" is one unit ahead of UTC, and a datetime without offset is read as
\* UTC.  The instant of a stored ts, which is the text of a UTC datetime.
Instant(dt) == (dt.sec - (IF dt.tz = "+1" THEN 1 ELSE 0)) * 10 + dt.usec

UtcTimes == {[sec |-> n, usec |-> u, tz |-> "utc"] : n \in 0..9, u \in {0, 5}}

InstantOfText(ts) == Instant(CHOOSE dt \in UtcTimes : IsoFormat(dt) = ts)

QueryReturned == fn.op = "query_messages" /\ fn.pc = "returned"

\* The client has read every page.
QueryFinished == QueryReturned /\ fn.data = <<>>

PageIds == {fn.pages[i].message_id : i \in 1..Len(fn.pages)}

\* C14: the rows query_messages matches are the stored rows whose sender
\* equals the sender filter, when one is supplied (a non-empty value), and
\* whose timestamp is not before since, when since is supplied: on a call
\* without text filter, total is their number and the pages hold them and no
\* other row.
ConjunctiveFilter ==
    (QueryReturned /\ fn.q = None) =>
        LET matching == {i \in 1..Len(rows) :
                            /\ Truthy(fn.from_filter) => rows[i].from_msisdn = fn.from_filter[1]
                            /\ fn.since # None => InstantOfText(rows[i].ts) >= Instant(fn.since[1])}
        IN  /\ fn.total = Cardinality(matching)
            /\ QueryFinished => PageIds = {rows[i].message_id : i \in matching}

\* An item of a page comes before another: earlier timestamp, or the same
\* timestamp and a smaller message_id.
ItemBefore(a, b) ==
    \/ InstantOfText(a.ts) < InstantOfText(b.ts)
    \/ /\ InstantOfText(a.ts) = InstantOfText(b.ts)
       /\ a.message_id # b.message_id /\ TextLeq(a.message_id, b.message_id)

\* C15: the pages at offsets 0, limit, 2*limit, ... of one filter on one
\* table, put end to end, are in strictly ascending order of (timestamp,
\* message_id), so no row is in two pages; every page but the last is full;
\* and once a page comes back empty they hold each matching row once.
PagesPartition ==
    QueryReturned =>
        /\ \A i \in 2..Len(fn.pages) : ItemBefore(fn.pages[i - 1], fn.pages[i])
        /\ Len(fn.data) <= fn.limit
        /\ Len(fn.pages) = IF fn.offset + fn.limit <= fn.total THEN fn.offset + fn.limit ELSE fn.total
        /\ QueryFinished =>
              /\ Len(fn.pages) = Cardinality(MatchingRows(rows, fn))
              /\ PageIds = {rows[i].message_id : i \in MatchingRows(rows, fn)}

\* Three rows were read in pages of two: two of them have one timestamp and
\* were inserted in descending order of message_id.
PagesPartitionWitness ==
    /\ QueryFinished
    /\ fn.limit = 2 /\ fn.offset = 4 /\ Len(fn.pages) = 3
    /\ \E i \in 1..2 : /\ fn.pages[i].ts = fn.pages[i + 1].ts
                       /\ \E j, k \in 1..Len(rows) :
                             /\ j < k
                             /\ rows[j].message_id = fn.pages[i + 1].message_id
                             /\ rows[k].message_id = fn.pages[i].message_id

\* The /messages requests that were answered with a page.
Answered == {r \in Reqs : /\ req[r].pc \in {"respond", "done"} /\ req[r].path = "/messages"
                          /\ req[r].status = 200 /\ req[r].out # None}

\* C16: the total a /messages response carries is consistent with its page,
\* also when inserts run beside the query: a response with offset 0 and
\* limit >= total holds exactly total items, and no response holds more
\* items than its total.
TotalMatchesPage ==
    \A r \in Answered :
        LET o == req[r].out[1]
        IN  /\ Len(o.data) <= o.total
            /\ (o.offset = 0 /\ o.limit >= o.total) => Len(o.data) = o.total

\* The number of rows of a sender in the table.
RowsOf(sender) == Cardinality({i \in 1..Len(rows) : rows[i].from_msisdn = sender})

DoneReqs == {r \in Reqs : req[r].pc = "done"}

LabelsOf(r) == HttpLabelKey(req[r].path, ToString(req[r].status))

\* C18: every completed request has made one http_requests_total increment
\* and one request_latency_ms observation, on the series of its path and of
\* the status of its response, which is 500 when the route raised: the
\* series that exist are those of the completed requests, and each counts
\* the completed requests of its path and status.
RequestsCounted ==
    LET labels == [r \in DoneReqs |-> LabelsOf(r)]
    IN  /\ DOMAIN metrics.histograms = {<<"request_latency_ms", labels[r]>> : r \in DoneReqs}
        /\ {k \in DOMAIN metrics.counters : k[1] = "http_requests_total"} =
              {<<"http_requests_total", labels[r]>> : r \in DoneReqs}
        /\ \A r \in DoneReqs :
              LET n == Cardinality({u \in DoneReqs : labels[u] = labels[r]})
                  hist_key == <<"request_latency_ms", labels[r]>>
              IN  /\ metrics.counters[<<"http_requests_total", labels[r]>>] = n
                  /\ metrics.histogram_counts[hist_key] = n
                  /\ metrics.histograms[hist_key][Len(LatencyBuckets) + 1] = n
                  /\ IF req[r].exc # "none" THEN req[r].status = 500 /\ req[r].out = None
                     ELSE req[r].out # None

\* A request that ended in an unhandled error and one that failed validation
\* are both counted.
RequestsCountedWitness ==
    \E r1, r2 \in Reqs :
        /\ req[r1].pc = "done" /\ req[r1].exc # "none"
        /\ req[r2].pc = "done" /\ req[r2].status = 422
        /\ Counter(HttpCounterKey(req[r1].path, "500")) = 1
        /\ Counter(HttpCounterKey(req[r2].path, "422")) = 1

\* The /webhook requests that ended with status 500 and were not cancelled.
Failed500 ==
    {r \in DoneReqs : /\ req[r].path = "/webhook" /\ req[r].status = 500
                      /\ req[r].exc # "CancelledError"}

\* C19: a /webhook request cancelled between verify_signature and the return
\* of insert_message records no metric: the counters and the histogram count
\* of path "/webhook" and status 500 hold the requests that failed there and
\* were not cancelled, and every other series is as C18 has it.
CancelledNotRecorded ==
    /\ Counter(HttpCounterKey("/webhook", "500")) = Cardinality(Failed500)
    /\ DictGet(metrics.histogram_counts, HistKey("/webhook", "500"), 0) = Cardinality(Failed500)
    /\ \A r \in Reqs : req[r].exc = "CancelledError" => req[r].inserted = "none"

\* The digest a header carries as C21 reads it: everything after the first
\* "=" of a header that starts with the scheme prefix, the whole header
\* otherwise.
AfterPrefix(signature) ==
    IF StartsWith(signature, Sha256Prefix)
    THEN SubSeq(signature, Len(Sha256Prefix) + 1, Len(signature))
    ELSE signature

\* C21: with a secret and a signature header, verification succeeds iff the
\* digest of the header, which is all of the header after "sha256=" when it
\* has that prefix and all of the header when it has none, equals the
\* computed hex digest; sha256=<correct digest>=<suffix> is rejected.
WholeDigestCompared ==
    (sig.outcome.kind # "pending" /\ sig.secret # <<>> /\ Presented # <<>>) =>
        (sig.outcome = Returns <=> AfterPrefix(Presented) = HexDigest(sig.secret, sig.body))

\* s holds t as a run of consecutive characters, compared as they are.
Contains(s, t) == \E i \in 0..(Len(s) - Len(t)) : SubSeq(s, i + 1, i + Len(t)) = t

\* C22: with q supplied (a non-empty value), the rows query_messages matches
\* are those that pass the sender filter, have a text, and hold q in it as a
\* literal, case-sensitive substring: total is their number and the pages
\* hold them and no other row.
LiteralTextFilter ==
    (QueryReturned /\ Truthy(fn.q) /\ fn.since = None) =>
        LET matching == {i \in 1..Len(rows) :
                            /\ Truthy(fn.from_filter) => rows[i].from_msisdn = fn.from_filter[1]
                            /\ rows[i].text # None
                            /\ Contains(rows[i].text[1], fn.q[1])}
        IN  /\ fn.total = Cardinality(matching)
            /\ QueryFinished => PageIds = {rows[i].message_id : i \in matching}

\* No request is between its arrival and the end of dispatch, and none was
\* cancelled.
Quiescent ==
    \A r \in Reqs : req[r].pc \in {"new", "done"} /\ req[r].exc # "CancelledError"

\* C23: in every interleaving of requests, cancelled ones included,
\* webhook_requests_total{result="success"} is at most the number of rows of
\* the table, and it is that number when no request is in flight and none
\* was cancelled.
SuccessWithinRows ==
    /\ Counter(WebhookCounterKey("success")) <= Len(rows)
    /\ Quiescent => Counter(WebhookCounterKey("success")) = Len(rows)

\* One request is counted as a success and the row of a second one is
\* committed while that request has not recorded its result yet.
SuccessWithinRowsWitness ==
    /\ Counter(WebhookCounterKey("success")) = 1
    /\ Len(rows) = 2
    /\ \E r \in Reqs : req[r].pc = "close" /\ req[r].inserted = "True"

StatsAnswered == {r \in Reqs : /\ req[r].pc \in {"respond", "done"} /\ req[r].path = "/stats"
                               /\ req[r].status = 200 /\ req[r].out # None}

RECURSIVE SumValues(_)
SumValues(d) ==
    IF DOMAIN d = {} THEN 0
    ELSE LET k == CHOOSE x \in DOMAIN d : TRUE
         IN  d[k] + SumValues([x \in DOMAIN d \ {k} |-> d[x]])

\* C24: the fields of a /stats response are consistent with each other, also
\* when inserts run beside compute_stats: senders_count is the number of
\* distinct senders among the first total_messages rows of the table, and
\* with at most 10 senders the values of messages_per_sender sum to
\* total_messages and its keys number senders_count.
StatsFieldsConsistent ==
    \A r \in StatsAnswered :
        LET o == req[r].out[1]
            counted == {rows[i].from_msisdn : i \in 1..o.total_messages}
        IN  /\ o.senders_count = Cardinality(counted)
            /\ o.senders_count <= TopLimit =>
                  /\ SumValues(o.messages_per_sender) = o.total_messages
                  /\ Cardinality(DOMAIN o.messages_per_sender) = o.senders_count

====
